---- MODULE Spec2Model ----
(***************************************************************************)
(* Journal HTML -> Markdown converter (src/main.py).                       *)
(*                                                                         *)
(* Text is modelled by TLA+ strings.  A file name is a sequence of pieces, *)
(* each piece being "." or a non-empty string without a dot, so that the   *)
(* pathlib operations (which look for the last dot) are computed the way   *)
(* pathlib computes them; Join turns the pieces into the string.           *)
(* An Optional value is a sequence of length at most one.                  *)
(***************************************************************************)
EXTENDS Integers, Sequences, FiniteSets, TLC

VARIABLES
    pc,          \* position of main / process_files / process_entry
    run,         \* which invocation of the program on the same directories
    inputOk,     \* the input directory exists and is a directory
    mkdirOk,     \* the output directories can be created
    listing,     \* input_path.iterdir(): the entries, in iteration order
    fault,       \* how writing the target of each media source fails
    idx,         \* index of the entry of the listing being processed
    cur,         \* locals of the running process_entry
    md,          \* output_path/*.md : file name -> text
    media,       \* output_path/Media/... : path relative to output_path -> content
    exitCode,    \* what main returned, per run
    call,        \* the last process_image / process_video call and its result
    attempted,   \* per run, the listing indices process_entry was called on
    written,     \* per run, listing index -> the Markdown file it wrote
    embeds,      \* Markdown file name -> the relative paths it embeds
    snapshot,    \* the output tree when the first run returned
    fin,         \* input of a pure function (function specifications)
    fout         \* its result

vars == <<pc, run, inputOk, mkdirOk, listing, fault, idx, cur, md, media,
          exitCode, call, attempted, written, embeds, snapshot, fin, fout>>

batchVars == <<pc, run, inputOk, mkdirOk, listing, fault, idx, cur, md, media,
               exitCode, call, attempted, written, embeds, snapshot>>

-----------------------------------------------------------------------------
(* Bounds *)

MaxEntries == 2
MaxRuns == 2
MaxNameLen == 5
MaxBlocks == 2

-----------------------------------------------------------------------------
(* Strings and paths *)

None == <<>>
Some(v) == <<v>>

RECURSIVE Join(_)
Join(s) == IF s = <<>> THEN "" ELSE Head(s) \o Join(Tail(s))

RECURSIVE JoinWith(_, _)
\* sep.join(items)
JoinWith(sep, items) ==
    IF items = <<>> THEN ""
    ELSE IF Len(items) = 1 THEN items[1]
    ELSE items[1] \o sep \o JoinWith(sep, Tail(items))

\* str.rfind("."), 1-based; 0 when there is no dot
RFindDot(name) ==
    LET dots == {k \in 1..Len(name) : name[k] = "."}
    IN  IF dots = {} THEN 0 ELSE CHOOSE k \in dots : \A j \in dots : j <= k

\* PurePath.suffix
Suffix(name) ==
    LET k == RFindDot(name)
    IN  IF 1 < k /\ k < Len(name) THEN SubSeq(name, k, Len(name)) ELSE <<>>

\* PurePath.stem
Stem(name) ==
    LET k == RFindDot(name)
    IN  IF 1 < k /\ k < Len(name) THEN SubSeq(name, 1, k - 1) ELSE name

\* PurePath.with_suffix: the path's own suffix, if any, is replaced
WithSuffix(name, suffix) ==
    LET old == Suffix(name)
    IN  IF old = <<>> THEN name \o suffix
        ELSE SubSeq(name, 1, Len(name) - Len(old)) \o suffix

-----------------------------------------------------------------------------
(* Media classifier: process_image, lines 103-116 *)

SUPPORTED_IMAGE_FORMATS == {"JPEG", "PNG"}

Formats == {"JPEG", "PNG", "MPO", "GIF", "BMP", "TIFF", "WEBP", "HEIF"}
Modes == {"1", "L", "LA", "P", "PA", "RGB", "RGBA", "CMYK"}

\* str.lower() on the format names Pillow reports
Lower(fmt) ==
    CASE fmt = "JPEG" -> "jpeg" [] fmt = "PNG" -> "png" [] fmt = "MPO" -> "mpo"
      [] fmt = "GIF" -> "gif" [] fmt = "BMP" -> "bmp" [] fmt = "TIFF" -> "tiff"
      [] fmt = "WEBP" -> "webp" [] fmt = "HEIF" -> "heif"

ClassifyIgnoringPalette(fmt, mode, transparency) ==
    IF fmt \notin SUPPORTED_IMAGE_FORMATS
    THEN IF ~(mode \in {"RGBA", "LA"})
         THEN [convert |-> TRUE, format |-> "JPEG", mode |-> "RGB"]
         ELSE [convert |-> TRUE, format |-> "PNG", mode |-> "RGBA"]
    ELSE [convert |-> FALSE, format |-> fmt, mode |-> mode]

\* The decision taken for a decoded image: whether it is re-encoded, and the
\* target format and colour mode.
Classify(fmt, mode, transparency) ==
    IF fmt \notin SUPPORTED_IMAGE_FORMATS
    THEN IF ~(mode \in {"RGBA", "LA"}) /\ ~(mode = "P" /\ transparency)
         THEN [convert |-> TRUE, format |-> "JPEG", mode |-> "RGB"]
         ELSE [convert |-> TRUE, format |-> "PNG", mode |-> "RGBA"]
    ELSE [convert |-> FALSE, format |-> fmt, mode |-> mode]

\* A path below output_path: the directory and the name of its last component
MediaRoot == "Media"
ImagesDir == [dir |-> MediaRoot, name |-> <<"Images">>]
VideosDir == [dir |-> MediaRoot, name |-> <<"Videos">>]

PathStr(path) == path.dir \o "/" \o Join(path.name)

\* dir / name: pathlib drops a "." component, so dir / "." is dir itself
Child(dir, name) ==
    IF name = <<".">> THEN dir ELSE [dir |-> PathStr(dir), name |-> name]

\* target_path: base.with_suffix("." + format.lower()), base being
\* images_dir / image_path.stem; with_suffix works on the last component
ImageTarget(name, fmt, mode, transparency) ==
    LET base == Child(ImagesDir, Stem(name))
        ext == <<".", Lower(Classify(fmt, mode, transparency).format)>>
    IN  [dir |-> base.dir, name |-> WithSuffix(base.name, ext)]

\* f"Media/Images/{target_path.name}", f"Media/Videos/{target.name}"
ImageRel(fileName) == "Media/Images/" \o fileName
VideoRel(fileName) == "Media/Videos/" \o fileName

-----------------------------------------------------------------------------
(* Document assembler: process_entry, lines 187-198 *)

ImageLine(rel) == "![Image](" \o rel \o ")"
VideoLine(rel) == "![Video](" \o rel \o ")"
TitleLine(t) == "# " \o t

ImageLines(rels) == [k \in 1..Len(rels) |-> ImageLine(rels[k])]
VideoLines(rels) == [k \in 1..Len(rels) |-> VideoLine(rels[k])]

\* out_file_content
Blocks(title, images, videos, paragraphs) ==
    (IF title # None THEN <<TitleLine(title[1])>> ELSE <<>>)
        \o ImageLines(images) \o VideoLines(videos) \o paragraphs

RenderAlwaysNewline(out_file_content) == JoinWith("\n\n", out_file_content) \o "\n"

\* content
Render(out_file_content) ==
    LET content == IF out_file_content # <<>>
                   THEN JoinWith("\n\n", out_file_content) ELSE ""
    IN  IF content # "" THEN content \o "\n" ELSE content

Assemble(title, images, videos, paragraphs) ==
    Render(Blocks(title, images, videos, paragraphs))

-----------------------------------------------------------------------------
(* Entry extractor: extract_date, extract_title, extract_paragraphs *)

NonEmpty(texts) == SelectSeq(texts, LAMBDA t : t # "")

\* dateutil.parser.parse: a date, or an exception on text that is no date
ParseDate(date_str) ==
    CASE date_str = "January 5, 2024" -> [ok |-> TRUE, year |-> 2024, month |-> 1, day |-> 5]
      [] date_str = "December 25, 2023" -> [ok |-> TRUE, year |-> 2023, month |-> 12, day |-> 25]
      [] OTHER -> [ok |-> FALSE, year |-> 0, month |-> 0, day |-> 0]

\* extract_date: raised is TRUE when the date parser raised
extract_date(pageHeaders) ==
    LET date_str == JoinWith(" ", NonEmpty(pageHeaders))
    IN  IF date_str # ""
        THEN LET d == ParseDate(date_str)
             IN  IF d.ok THEN [raised |-> FALSE, date |-> Some(d)]
                 ELSE [raised |-> TRUE, date |-> None]
        ELSE [raised |-> FALSE, date |-> None]

extract_title(titles) ==
    LET title == JoinWith(" ", NonEmpty(titles))
    IN  IF title # "" THEN Some(title) ELSE None

IsSpace(piece) == piece \in {" ", "\n", "\n\n  "}

RECURSIVE Collapse(_)
\* re.sub(r"\s+", " ", text) on a text given as words and whitespace runs
Collapse(pieces) ==
    IF pieces = <<>> THEN ""
    ELSE IF IsSpace(Head(pieces))
         THEN IF Len(pieces) > 1 /\ IsSpace(pieces[2])
              THEN Collapse(Tail(pieces))
              ELSE " " \o Collapse(Tail(pieces))
         ELSE Head(pieces) \o Collapse(Tail(pieces))

RECURSIVE Strip(_)
\* get_text(strip=True) of a paragraph holding one text node
Strip(pieces) ==
    IF pieces = <<>> THEN <<>>
    ELSE IF IsSpace(Head(pieces)) THEN Strip(Tail(pieces))
    ELSE IF IsSpace(pieces[Len(pieces)]) THEN Strip(SubSeq(pieces, 1, Len(pieces) - 1))
    ELSE pieces

extract_paragraphs(rawParagraphs) ==
    NonEmpty([k \in 1..Len(rawParagraphs) |-> Collapse(Strip(rawParagraphs[k]))])

\* collect_image_paths / collect_video_paths: the src of every img, and of
\* every source, of the asset grids, in document order
collect_image_paths(assets) ==
    LET imgs == SelectSeq(assets, LAMBDA a : a.tag = "img")
    IN  [k \in 1..Len(imgs) |-> imgs[k].src]

collect_video_paths(assets) ==
    LET sources == SelectSeq(assets, LAMBDA a : a.tag = "source")
    IN  [k \in 1..Len(sources) |-> sources[k].src]

Pad2(n) == IF n < 10 THEN "0" \o ToString(n) ELSE ToString(n)

\* out_file_name
OutFileName(date, entryName) ==
    IF date # None
    THEN ToString(date[1].year) \o "-" \o Pad2(date[1].month) \o "-"
            \o Pad2(date[1].day) \o ".md"
    ELSE Join(Stem(entryName)) \o ".md"

-----------------------------------------------------------------------------
(* The input directory: the media files and the entries a run may meet *)

MediaIds == {"heic1", "heic2", "dots", "png1", "bad", "mov1", "gone"}

MediaFile(m) ==
    CASE m = "heic1" -> [name |-> <<"a", ".", "heic">>, exists |-> TRUE, decodable |-> TRUE,
                         format |-> "HEIF", mode |-> "RGB", transparency |-> FALSE]
      [] m = "heic2" -> [name |-> <<"a", ".", "1", ".", "heic">>, exists |-> TRUE,
                         decodable |-> TRUE,
                         format |-> "HEIF", mode |-> "RGB", transparency |-> FALSE]
      [] m = "dots" -> [name |-> <<".", ".", "heic">>, exists |-> TRUE, decodable |-> TRUE,
                        format |-> "HEIF", mode |-> "RGB", transparency |-> FALSE]
      [] m = "png1" -> [name |-> <<"b", ".", "png">>, exists |-> TRUE, decodable |-> TRUE,
                        format |-> "PNG", mode |-> "RGBA", transparency |-> FALSE]
      [] m = "bad" -> [name |-> <<"c", ".", "jpg">>, exists |-> TRUE, decodable |-> FALSE,
                       format |-> "JPEG", mode |-> "RGB", transparency |-> FALSE]
      [] m = "mov1" -> [name |-> <<"v", ".", "mov">>, exists |-> TRUE, decodable |-> FALSE,
                        format |-> "", mode |-> "", transparency |-> FALSE]
      [] m = "gone" -> [name |-> <<"w", ".", "mov">>, exists |-> FALSE, decodable |-> FALSE,
                        format |-> "", mode |-> "", transparency |-> FALSE]

\* How a write of the target of m fails, the same way on every run:
\*   none   it does not
\*   open   the target cannot be created; no file is left
\*   write  the target is created and the write fails part-way (disk full)
\*   copy   read_bytes/write_bytes fails before the target is created, while
\*          Pillow's save works (pass-through images only)
FaultKinds(m) ==
    CASE m = "png1" -> {"none", "open", "write", "copy"}
      [] m \in {"heic1", "mov1"} -> {"none", "open", "write"}
      [] OTHER -> {"none"}

EntryIds == {"e1", "e2", "e3", "e4", "e5", "e6"}

NoAssets == <<>>

Entry(e) ==
    CASE e = "e1" ->
            [name |-> <<"one", ".", "html">>, isFile |-> TRUE, readable |-> TRUE,
             pageHeaders |-> <<"January 5, 2024">>, titles |-> <<"T">>,
             assets |-> <<[tag |-> "source", src |-> "mov1"], [tag |-> "img", src |-> "heic1"],
                          [tag |-> "img", src |-> "bad"], [tag |-> "img", src |-> "png1"]>>,
             paragraphs |-> << <<"Hello", "\n\n  ", "world">>, <<" ">> >>]
      [] e = "e2" ->
            [name |-> <<"two", ".", "html">>, isFile |-> TRUE, readable |-> TRUE,
             pageHeaders |-> <<"", "January 5, 2024">>, titles |-> <<>>,
             assets |-> <<[tag |-> "img", src |-> "heic2"], [tag |-> "source", src |-> "gone"],
                          [tag |-> "img", src |-> "dots"]>>,
             paragraphs |-> <<>>]
      [] e = "e3" ->
            [name |-> <<"2024-01-05", ".", "html">>, isFile |-> TRUE, readable |-> TRUE,
             pageHeaders |-> <<"">>, titles |-> <<"">>,
             assets |-> NoAssets, paragraphs |-> <<>>]
      [] e = "e4" ->
            [name |-> <<"four", ".", "html">>, isFile |-> TRUE, readable |-> TRUE,
             pageHeaders |-> <<"someday">>, titles |-> <<"U">>,
             assets |-> <<[tag |-> "img", src |-> "png1"]>>,
             paragraphs |-> << <<"text">> >>]
      [] e = "e5" ->
            [name |-> <<"dir">>, isFile |-> FALSE, readable |-> FALSE,
             pageHeaders |-> <<>>, titles |-> <<>>, assets |-> NoAssets, paragraphs |-> <<>>]
      [] e = "e6" ->
            [name |-> <<"six", ".", "html">>, isFile |-> TRUE, readable |-> FALSE,
             pageHeaders |-> <<>>, titles |-> <<>>, assets |-> NoAssets, paragraphs |-> <<>>]

\* The directory listings: up to MaxEntries distinct entries, in any order
Listings ==
    {l \in UNION {[1..n -> EntryIds] : n \in 0..MaxEntries} :
        \A j, k \in 1..Len(l) : j # k => l[j] # l[k]}

Put(f, k, v) == [x \in DOMAIN f \cup {k} |-> IF x = k THEN v ELSE f[x]]
NoFiles == [x \in {} |-> ""]

-----------------------------------------------------------------------------
(* Image and video materializers: process_image, process_video *)

Content(m, how, format, mode) == [src |-> m, how |-> how, format |-> format, mode |-> mode]

Result(files, rel, opened, target, existed) ==
    [files |-> files, rel |-> rel, opened |-> opened, target |-> target, existed |-> existed]

process_image_overwriting(m, files, flt) ==
    LET f == MediaFile(m)
        d == Classify(f.format, f.mode, f.transparency)
        target_path == ImageTarget(f.name, f.format, f.mode, f.transparency)
        target == PathStr(target_path)
        rel == ImageRel(Join(target_path.name))
    IN  IF ~(f.exists /\ f.decodable) THEN Result(files, None, FALSE, "", FALSE)
        ELSE Result(Put(files, target, Content(m, "copy", d.format, d.mode)),
                    Some(rel), TRUE, target, target \in DOMAIN files)

\* process_image(image_path, images_dir): files is the media tree of the output
\* directory, flt the way a write of this source's target fails.  The result
\* holds the tree after the call and the value returned.
process_image(m, files, flt) ==
    LET f == MediaFile(m)
        d == Classify(f.format, f.mode, f.transparency)
        target_path == ImageTarget(f.name, f.format, f.mode, f.transparency)
        target == PathStr(target_path)
        rel == ImageRel(Join(target_path.name))
        partial == Put(files, target, Content(m, "partial", d.format, d.mode))
    IN  IF ~(f.exists /\ f.decodable)
        THEN \* Image.open raises
             Result(files, None, FALSE, "", FALSE)
        ELSE IF target \in DOMAIN files
        THEN Result(files, Some(rel), TRUE, target, TRUE)
        ELSE IF d.convert
        THEN \* converted.save(target_path, format=target_format)
             CASE flt \in {"none", "copy"} ->
                    Result(Put(files, target, Content(m, "convert", d.format, d.mode)),
                           Some(rel), TRUE, target, FALSE)
               [] flt = "open" -> Result(files, None, TRUE, target, FALSE)
               [] flt = "write" -> Result(partial, None, TRUE, target, FALSE)
        ELSE \* target_path.write_bytes(image_path.read_bytes()), else img.save
             CASE flt = "none" ->
                    Result(Put(files, target, Content(m, "copy", d.format, d.mode)),
                           Some(rel), TRUE, target, FALSE)
               [] flt = "copy" ->
                    Result(Put(files, target, Content(m, "save", d.format, d.mode)),
                           Some(rel), TRUE, target, FALSE)
               [] flt = "open" -> Result(files, None, TRUE, target, FALSE)
               [] flt = "write" -> Result(partial, None, TRUE, target, FALSE)

\* process_video(video_path, videos_dir)
process_video(m, files, flt) ==
    LET f == MediaFile(m)
        target_path == Child(VideosDir, f.name)
        target == PathStr(target_path)
        rel == VideoRel(Join(target_path.name))
    IN  IF target \in DOMAIN files
        THEN Result(files, Some(rel), TRUE, target, TRUE)
        ELSE IF ~f.exists
        THEN \* video_path.read_bytes() raises
             Result(files, None, TRUE, target, FALSE)
        ELSE CASE flt \in {"none", "copy"} ->
                    Result(Put(files, target, Content(m, "copy", "", "")),
                           Some(rel), TRUE, target, FALSE)
               [] flt = "open" -> Result(files, None, TRUE, target, FALSE)
               [] flt = "write" ->
                    Result(Put(files, target, Content(m, "partial", "", "")),
                           None, TRUE, target, FALSE)

-----------------------------------------------------------------------------
(* Batch driver: main, process_files, process_entry *)

Idle == [entry |-> "", date |-> None, title |-> None, images_paths |-> <<>>,
         videos_paths |-> <<>>, images |-> <<>>, videos |-> <<>>,
         imageResults |-> <<>>, videoResults |-> <<>>]

NoCall == [kind |-> "", src |-> "", rel |-> None, opened |-> FALSE, target |-> "",
           existed |-> FALSE]

NoSnapshot == [taken |-> FALSE, md |-> NoFiles, media |-> NoFiles]

Init ==
    /\ pc = "start"
    /\ run = 1
    /\ inputOk \in BOOLEAN
    /\ mkdirOk \in BOOLEAN
    /\ listing \in Listings
    /\ fault \in {f \in [MediaIds -> {"none", "open", "write", "copy"}] :
                    \A m \in MediaIds : f[m] \in FaultKinds(m)}
    /\ idx = 0
    /\ cur = Idle
    /\ md = NoFiles
    /\ media = NoFiles
    /\ exitCode = <<>>
    /\ call = NoCall
    /\ attempted = [r \in 1..MaxRuns |-> {}]
    /\ written = [r \in 1..MaxRuns |-> NoFiles]
    /\ embeds = NoFiles
    /\ snapshot = NoSnapshot
    /\ fin = <<>>
    /\ fout = <<>>

\* main, lines 219-230, up to the loop of process_files: a failure of
\* validate_input_path or of a create_output_path is caught by main's except
Main ==
    /\ pc = "start"
    /\ IF inputOk /\ mkdirOk
       THEN /\ pc' = "iter"
            /\ idx' = 1
            /\ UNCHANGED exitCode
       ELSE /\ pc' = "exit"
            /\ exitCode' = Append(exitCode, -1)
            /\ UNCHANGED idx
    /\ UNCHANGED <<run, inputOk, mkdirOk, listing, fault, cur, md, media,
                   call, attempted, written, embeds, snapshot, fin, fout>>

\* process_files, line 216: the loop is over, return 0
Return ==
    /\ pc = "iter"
    /\ idx > Len(listing)
    /\ pc' = "exit"
    /\ exitCode' = Append(exitCode, 0)
    /\ UNCHANGED <<run, inputOk, mkdirOk, listing, fault, idx, cur, md, media,
                   call, attempted, written, embeds, snapshot, fin, fout>>

\* process_files, lines 209-210: not a regular file
SkipEntry ==
    /\ pc = "iter"
    /\ idx <= Len(listing)
    /\ ~Entry(listing[idx]).isFile
    /\ idx' = idx + 1
    /\ UNCHANGED <<pc, run, inputOk, mkdirOk, listing, fault, cur, md, media,
                   exitCode, call, attempted, written, embeds, snapshot,
                   fin, fout>>

BeginEntryWithoutTry ==
    /\ pc = "iter"
    /\ idx <= Len(listing)
    /\ Entry(listing[idx]).isFile
    /\ attempted' = [attempted EXCEPT ![run] = @ \cup {idx}]
    /\ LET e == Entry(listing[idx])
           d == extract_date(e.pageHeaders)
       IN  IF ~e.readable \/ d.raised
           THEN /\ pc' = "exit"
                /\ exitCode' = Append(exitCode, -1)
                /\ UNCHANGED <<cur, idx>>
           ELSE /\ pc' = "entry"
                /\ cur' = [entry |-> listing[idx], date |-> d.date,
                           title |-> extract_title(e.titles),
                           images_paths |-> collect_image_paths(e.assets),
                           videos_paths |-> collect_video_paths(e.assets),
                           images |-> <<>>, videos |-> <<>>,
                           imageResults |-> <<>>, videoResults |-> <<>>]
                /\ UNCHANGED <<idx, exitCode>>
    /\ UNCHANGED <<run, inputOk, mkdirOk, listing, fault, md, media,
                   call, written, embeds, snapshot, fin, fout>>

\* process_files, lines 211-215, calling process_entry, lines 154-165: reading
\* the entry or extract_date may raise, which process_files catches
BeginEntry ==
    /\ pc = "iter"
    /\ idx <= Len(listing)
    /\ Entry(listing[idx]).isFile
    /\ attempted' = [attempted EXCEPT ![run] = @ \cup {idx}]
    /\ LET e == Entry(listing[idx])
           d == extract_date(e.pageHeaders)
       IN  IF ~e.readable \/ d.raised
           THEN /\ idx' = idx + 1
                /\ UNCHANGED <<pc, cur>>
           ELSE /\ pc' = "entry"
                /\ cur' = [entry |-> listing[idx], date |-> d.date,
                           title |-> extract_title(e.titles),
                           images_paths |-> collect_image_paths(e.assets),
                           videos_paths |-> collect_video_paths(e.assets),
                           images |-> <<>>, videos |-> <<>>,
                           imageResults |-> <<>>, videoResults |-> <<>>]
                /\ UNCHANGED idx
    /\ UNCHANGED <<run, inputOk, mkdirOk, listing, fault, md, media,
                   exitCode, call, written, embeds, snapshot, fin, fout>>

ProcessImageAppendingAbsent ==
    /\ pc = "entry"
    /\ Len(cur.imageResults) < Len(cur.images_paths)
    /\ LET m == cur.images_paths[Len(cur.imageResults) + 1]
           r == process_image(m, media, fault[m])
       IN  /\ media' = r.files
           /\ cur' = [cur EXCEPT !.images = Append(@, IF r.rel # None THEN r.rel[1] ELSE "None"),
                                 !.imageResults = Append(@, r.rel)]
           /\ call' = [kind |-> "image", src |-> m, rel |-> r.rel, opened |-> r.opened,
                       target |-> r.target, existed |-> r.existed]
    /\ UNCHANGED <<pc, run, inputOk, mkdirOk, listing, fault, idx, md,
                   exitCode, attempted, written, embeds, snapshot, fin, fout>>

\* process_entry, lines 168-171: one iteration of the loop over images_paths
ProcessImage ==
    /\ pc = "entry"
    /\ Len(cur.imageResults) < Len(cur.images_paths)
    /\ LET m == cur.images_paths[Len(cur.imageResults) + 1]
           r == process_image(m, media, fault[m])
       IN  /\ media' = r.files
           /\ cur' = [cur EXCEPT !.images = IF r.rel # None THEN Append(@, r.rel[1]) ELSE @,
                                 !.imageResults = Append(@, r.rel)]
           /\ call' = [kind |-> "image", src |-> m, rel |-> r.rel, opened |-> r.opened,
                       target |-> r.target, existed |-> r.existed]
    /\ UNCHANGED <<pc, run, inputOk, mkdirOk, listing, fault, idx, md,
                   exitCode, attempted, written, embeds, snapshot, fin, fout>>

\* process_entry, lines 174-177: one iteration of the loop over videos_paths
ProcessVideo ==
    /\ pc = "entry"
    /\ Len(cur.imageResults) = Len(cur.images_paths)
    /\ Len(cur.videoResults) < Len(cur.videos_paths)
    /\ LET m == cur.videos_paths[Len(cur.videoResults) + 1]
           r == process_video(m, media, fault[m])
       IN  /\ media' = r.files
           /\ cur' = [cur EXCEPT !.videos = IF r.rel # None THEN Append(@, r.rel[1]) ELSE @,
                                 !.videoResults = Append(@, r.rel)]
           /\ call' = [kind |-> "video", src |-> m, rel |-> r.rel, opened |-> r.opened,
                       target |-> r.target, existed |-> r.existed]
    /\ UNCHANGED <<pc, run, inputOk, mkdirOk, listing, fault, idx, md,
                   exitCode, attempted, written, embeds, snapshot, fin, fout>>

\* process_entry, lines 179-201: the Markdown file is opened with "w" and written
WriteEntry ==
    /\ pc = "entry"
    /\ Len(cur.imageResults) = Len(cur.images_paths)
    /\ Len(cur.videoResults) = Len(cur.videos_paths)
    /\ LET e == Entry(cur.entry)
           out_file_name == OutFileName(cur.date, e.name)
           content == Assemble(cur.title, cur.images, cur.videos,
                               extract_paragraphs(e.paragraphs))
       IN  /\ md' = Put(md, out_file_name, content)
           /\ written' = [written EXCEPT ![run] =
                            Put(@, idx, [name |-> out_file_name, content |-> content,
                                          imageResults |-> cur.imageResults,
                                          videoResults |-> cur.videoResults])]
           /\ embeds' = Put(embeds, out_file_name, cur.images \o cur.videos)
    /\ pc' = "iter"
    /\ idx' = idx + 1
    /\ cur' = Idle
    /\ UNCHANGED <<run, inputOk, mkdirOk, listing, fault, media,
                   exitCode, call, attempted, snapshot, fin, fout>>

\* The program is run again on the same input and output directories
Rerun ==
    /\ pc = "exit"
    /\ run < MaxRuns
    /\ run' = run + 1
    /\ pc' = "start"
    /\ idx' = 0
    /\ snapshot' = IF run = 1
                   THEN [taken |-> TRUE, md |-> md, media |-> media]
                   ELSE snapshot
    /\ UNCHANGED <<inputOk, mkdirOk, listing, fault, cur, md, media,
                   exitCode, call, attempted, written, embeds, fin, fout>>

Next ==
    \/ Main
    \/ Return
    \/ SkipEntry
    \/ BeginEntry
    \/ ProcessImage
    \/ ProcessVideo
    \/ WriteEntry
    \/ Rerun

Spec == Init /\ [][Next]_vars

-----------------------------------------------------------------------------
(* Function specifications: one pure function applied to every input of a  *)
(* bounded set                                                             *)

Off ==
    /\ pc = "function"
    /\ run = 1
    /\ inputOk = TRUE
    /\ mkdirOk = TRUE
    /\ listing = <<>>
    /\ fault = [m \in MediaIds |-> "none"]
    /\ idx = 0
    /\ cur = Idle
    /\ md = NoFiles
    /\ media = NoFiles
    /\ exitCode = <<>>
    /\ call = NoCall
    /\ attempted = [r \in 1..MaxRuns |-> {}]
    /\ written = [r \in 1..MaxRuns |-> NoFiles]
    /\ embeds = NoFiles
    /\ snapshot = NoSnapshot

SeqsUpTo(S, n) == UNION {[1..k -> S] : k \in 0..n}

InitClassifier ==
    /\ Off
    /\ fin \in [format : Formats, mode : Modes, transparency : BOOLEAN]
    /\ fout = <<>>

\* process_image, lines 103-116, on a decoded image
ApplyClassifier ==
    /\ fout = <<>>
    /\ fout' = <<Classify(fin.format, fin.mode, fin.transparency)>>
    /\ UNCHANGED <<batchVars, fin>>

SpecClassifier == InitClassifier /\ [][ApplyClassifier]_vars

\* File names of at most MaxNameLen characters: any but "", "." and ".."
NameChars == {"a", "."}
Names == SeqsUpTo(NameChars, MaxNameLen) \ {<<>>, <<".">>, <<".", ".">>}

InitNaming ==
    /\ Off
    /\ fin \in [name : Names, other : Names, format : {"PNG", "HEIF"},
                mode : {"RGB", "RGBA"}, transparency : {FALSE}]
    /\ fout = <<>>

\* process_image, lines 102-123, on two source images: the names of the
\* targets and the value returned for the first
ApplyNaming ==
    /\ fout = <<>>
    /\ LET target_path == ImageTarget(fin.name, fin.format, fin.mode, fin.transparency)
           other == ImageTarget(fin.other, fin.format, fin.mode, fin.transparency)
       IN  fout' = <<[target |-> PathStr(target_path),
                      rel |-> ImageRel(Join(target_path.name)),
                      otherTarget |-> PathStr(other)]>>
    /\ UNCHANGED <<batchVars, fin>>

SpecNaming == InitNaming /\ [][ApplyNaming]_vars

InitAssembler ==
    /\ Off
    /\ fin \in [title : {None, Some("T")},
                images : SeqsUpTo({ImageRel("a.jpeg"), ImageRel("b.png")}, MaxBlocks),
                videos : SeqsUpTo({VideoRel("v.mov")}, MaxBlocks),
                paragraphs : SeqsUpTo({"Hello world", "p"}, MaxBlocks)]
    /\ fout = <<>>

\* process_entry, lines 187-198
ApplyAssembler ==
    /\ fout = <<>>
    /\ fout' = <<Assemble(fin.title, fin.images, fin.videos, fin.paragraphs)>>
    /\ UNCHANGED <<batchVars, fin>>

SpecAssembler == InitAssembler /\ [][ApplyAssembler]_vars

-----------------------------------------------------------------------------
(* Properties *)

ImageCallStep == pc = "entry" /\ Len(cur'.imageResults) = Len(cur.imageResults) + 1
VideoCallStep == pc = "entry" /\ Len(cur'.videoResults) = Len(cur.videoResults) + 1

Kept(before, after) == \A n \in DOMAIN before : n \in DOMAIN after /\ after[n] = before[n]

\* rel is the relative path of the target computed for media source m
IsTargetOf(rel, m, kind) ==
    LET f == MediaFile(m)
    IN  IF kind = "image"
        THEN rel = "Media/Images/"
                    \o Join(ImageTarget(f.name, f.format, f.mode, f.transparency).name)
        ELSE rel = "Media/Videos/" \o Join(f.name)

C2_BatchIdempotent ==
    (pc = "exit" /\ run = 2 /\ exitCode = <<0, 0>>)
        => /\ md = snapshot.md
           /\ Kept(snapshot.media, media)

\* C3: the classifier rule.  The image is passed through, in its own
\* encoding, iff that is JPEG or PNG; otherwise it is re-encoded to PNG in
\* RGBA when its mode is RGBA or LA, or P with transparency metadata, and to
\* JPEG in RGB in every other case.
C3_ClassifierRule ==
    fout # <<>> =>
        LET d == fout[1]
            alpha == fin.mode = "RGBA" \/ fin.mode = "LA"
                        \/ (fin.mode = "P" /\ fin.transparency)
        IN  /\ ~d.convert <=> (fin.format = "JPEG" \/ fin.format = "PNG")
            /\ ~d.convert => d.format = fin.format
            /\ (d.convert /\ alpha) => (d.format = "PNG" /\ d.mode = "RGBA")
            /\ (d.convert /\ ~alpha) => (d.format = "JPEG" /\ d.mode = "RGB")

\* C3 witness: a GIF palette image with transparency was classified, and is
\* re-encoded to PNG.
C3_Witness ==
    /\ fout # <<>>
    /\ fin = [format |-> "GIF", mode |-> "P", transparency |-> TRUE]
    /\ fout[1] = [convert |-> TRUE, format |-> "PNG", mode |-> "RGBA"]

\* C4 (as claimed): the target is named by the source's base name (its name
\* without the final extension, interior dots kept) followed by the extension
\* of the target encoding, the value returned is "Media/Images/" and that
\* name, and two sources with different base names get different targets.
C4_TargetNaming ==
    fout # <<>> =>
        LET ext == "." \o Lower(Classify(fin.format, fin.mode, fin.transparency).format)
        IN  /\ fout[1].target = "Media/Images/" \o Join(Stem(fin.name)) \o ext
            /\ fout[1].rel = "Media/Images/" \o Join(Stem(fin.name)) \o ext
            /\ Join(Stem(fin.name)) # Join(Stem(fin.other))
                    => fout[1].target # fout[1].otherTarget

Present(results) ==
    LET some == SelectSeq(results, LAMBDA r : r # None)
    IN  [k \in 1..Len(some) |-> some[k][1]]

TitleBlock(e) ==
    LET t == JoinWith(" ", SelectSeq(e.titles, LAMBDA x : x # ""))
    IN  IF t = "" THEN <<>> ELSE <<"# " \o t>>

CountTag(assets, k, tag) == Cardinality({j \in 1..k : assets[j].tag = tag})

\* The embed lines of the assets that materialized, in document order
DocOrderLines(assets, w) ==
    LET line(k) ==
            IF assets[k].tag = "img"
            THEN LET r == w.imageResults[CountTag(assets, k, "img")]
                 IN  IF r = None THEN "" ELSE "![Image](" \o r[1] \o ")"
            ELSE LET r == w.videoResults[CountTag(assets, k, "source")]
                 IN  IF r = None THEN "" ELSE "![Video](" \o r[1] \o ")"
    IN  SelectSeq([k \in 1..Len(assets) |-> line(k)], LAMBDA l : l # "")

HasFailedAsset(w) ==
    \/ \E k \in 1..Len(w.imageResults) : w.imageResults[k] = None
    \/ \E k \in 1..Len(w.videoResults) : w.videoResults[k] = None

Converts(e) == e.isFile /\ e.readable /\ ~extract_date(e.pageHeaders).raised

\* C5 (as claimed): an entry with a failed asset is still written, without a
\* line for the failed asset, and the lines of its other assets appear in the
\* order the assets are referenced in the document.
C5_DocumentOrder ==
    \A r \in 1..MaxRuns : \A i \in DOMAIN written[r] :
        LET w == written[r][i]
            e == Entry(listing[i])
        IN  HasFailedAsset(w) =>
                w.content = Render(TitleBlock(e) \o DocOrderLines(e.assets, w)
                                    \o extract_paragraphs(e.paragraphs))

\* C5 (amended): every asset of an entry is attempted whatever happened to
\* the assets before it, the entry is written, and its Markdown holds no line
\* for an asset whose call returned absent and one line for every other
\* asset: the images in the order they are referenced, then the videos in
\* the order they are referenced.
C5_FailureIsolation ==
    /\ \A r \in 1..MaxRuns : \A i \in DOMAIN written[r] :
        LET w == written[r][i]
            e == Entry(listing[i])
        IN  /\ Len(w.imageResults) = CountTag(e.assets, Len(e.assets), "img")
            /\ Len(w.videoResults) = CountTag(e.assets, Len(e.assets), "source")
            /\ w.content = Render(TitleBlock(e)
                                    \o ImageLines(Present(w.imageResults))
                                    \o VideoLines(Present(w.videoResults))
                                    \o extract_paragraphs(e.paragraphs))
    /\ pc = "exit" /\ inputOk /\ mkdirOk =>
        \A i \in 1..Len(listing) : Converts(Entry(listing[i])) => i \in DOMAIN written[run]

\* C5 witness: an entry was written in which an image failed and a later
\* image and a video materialized.
C5_Witness ==
    \E r \in 1..MaxRuns : \E i \in DOMAIN written[r] :
        LET w == written[r][i]
        IN  /\ \E j, k \in 1..Len(w.imageResults) :
                    j < k /\ w.imageResults[j] = None /\ w.imageResults[k] # None
            /\ \E k \in 1..Len(w.videoResults) : w.videoResults[k] # None

EntryFails(e) == e.isFile /\ ~Converts(e)

\* C6: once the directories are validated and created, process_entry is
\* attempted on every regular file of the input directory, whatever failed
\* on the entries before it, and the exit code is 0; the exit code is
\* non-zero only after a fatal failure of the setup.
C6_BatchIsolation ==
    pc = "exit" =>
        /\ Len(exitCode) = run
        /\ (inputOk /\ mkdirOk) =>
                /\ exitCode[run] = 0
                /\ attempted[run] = {i \in 1..Len(listing) : Entry(listing[i]).isFile}
        /\ exitCode[run] # 0 => ~(inputOk /\ mkdirOk)

\* C6 witness: the batch returned 0 after an entry failed and an entry after
\* it was attempted and written.
C6_Witness ==
    /\ pc = "exit"
    /\ exitCode[run] = 0
    /\ \E i, j \in 1..Len(listing) :
            /\ i < j
            /\ EntryFails(Entry(listing[i]))
            /\ i \in attempted[run]
            /\ j \in DOMAIN written[run]

\* C7 (as claimed): an entry whose page-header text is empty, or is text the
\* date parser fails on, is converted and written to <base name>.md; one
\* with a date is written to YYYY-MM-DD.md.
C7_DateFallback ==
    (pc = "exit" /\ inputOk /\ mkdirOk) =>
        \A i \in 1..Len(listing) :
            LET e == Entry(listing[i])
                text == JoinWith(" ", SelectSeq(e.pageHeaders, LAMBDA t : t # ""))
                d == ParseDate(text)
            IN  (e.isFile /\ e.readable) =>
                    /\ i \in DOMAIN written[run]
                    /\ (text = "" \/ ~d.ok)
                            => written[run][i].name = Join(Stem(e.name)) \o ".md"
                    /\ (text # "" /\ d.ok)
                            => written[run][i].name =
                                    ToString(d.year) \o "-" \o Pad2(d.month) \o "-"
                                        \o Pad2(d.day) \o ".md"

\* The text the assembler is to produce: the blocks in the fixed order, each
\* followed by a blank line, the last by a newline only
ExpectedText(title, images, videos, paragraphs) ==
    LET t == Len(title)
        ni == Len(images)
        nv == Len(videos)
        n == t + ni + nv + Len(paragraphs)
        block(k) ==
            IF k <= t THEN "# " \o title[1]
            ELSE IF k <= t + ni THEN "![Image](" \o images[k - t] \o ")"
            ELSE IF k <= t + ni + nv THEN "![Video](" \o videos[k - t - ni] \o ")"
            ELSE paragraphs[k - t - ni - nv]
    IN  Join([k \in 1..n |-> block(k) \o (IF k < n THEN "\n\n" ELSE "\n")])

\* C8: document assembly.  The text is the title heading, the image lines,
\* the video lines and the paragraphs in that order, joined by one blank
\* line, with one trailing newline; with no block it is empty.
C8_Assembly ==
    fout # <<>> =>
        /\ fout[1] = ExpectedText(fin.title, fin.images, fin.videos, fin.paragraphs)
        /\ fout[1] = "" <=>
                (fin.title = None /\ fin.images = <<>> /\ fin.videos = <<>>
                    /\ fin.paragraphs = <<>>)
        /\ (fin.title = Some("T") /\ fin.images = <<>> /\ fin.videos = <<>>
                /\ fin.paragraphs = <<"Hello world">>)
                => fout[1] = "# T\n\nHello world\n"

\* C8 witness: a title, an image, a video and a paragraph were assembled.
C8_Witness ==
    /\ fout # <<>>
    /\ fin.title # None
    /\ Len(fin.images) = 1
    /\ Len(fin.videos) = 1
    /\ Len(fin.paragraphs) = 1
    /\ fout[1] = "# T\n\n![Image](" \o fin.images[1] \o ")\n\n![Video](Media/Videos/v.mov)\n\n"
                    \o fin.paragraphs[1] \o "\n"

\* C9 (as claimed): when the batch has returned, every entry it wrote has a
\* Markdown file of its own, which holds that entry's content.
C9_OneFilePerEntry ==
    pc = "exit" =>
        \A i \in DOMAIN written[run] :
            /\ written[run][i].name \in DOMAIN md
            /\ md[written[run][i].name] = written[run][i].content
            /\ \A j \in DOMAIN written[run] :
                    i # j => written[run][i].name # written[run][j].name

ExistsInOutput(rel) == rel \in DOMAIN media

\* C10 (as claimed): no dangling embeds.  The path a process_image or
\* process_video call returned names a file of the output tree, and so does
\* every path embedded in a Markdown file or collected for the entry being
\* processed.
C10_NoDanglingEmbeds ==
    /\ call.rel # None => ExistsInOutput(call.rel[1])
    /\ \A k \in 1..Len(cur.images) : ExistsInOutput(cur.images[k])
    /\ \A k \in 1..Len(cur.videos) : ExistsInOutput(cur.videos[k])
    /\ \A name \in DOMAIN embeds :
            \A k \in 1..Len(embeds[name]) : ExistsInOutput(embeds[name][k])

====
